---- MODULE Spec2Model ----
(***************************************************************************)
(* Anti-entropy broadcast node of maelstrom-ci (solutions/src/bin/         *)
(* broadcast.rs): the envelope handler, the per-neighbour unacknowledged   *)
(* queues and the gossip scheduler, as a state machine.                    *)
(*                                                                         *)
(* Every handler arm takes the state mutex on its first line and keeps it  *)
(* until the arm ends; the scheduler holds it for a whole tick.  A handler *)
(* reaction and a scheduler tick are therefore one atomic step each.       *)
(***************************************************************************)
EXTENDS Integers, Sequences, FiniteSets, TLC

(***************************** bounds **************************************)
NumNodes == 2          \* processes in the network, ids n0 .. n(NumNodes-1)
MaxValue == 2          \* broadcast values are 1 .. MaxValue
MaxLen == 2            \* longest sync / sync_ok list an arbitrary peer sends
MaxStride == 2         \* STRIDE is configured in 1 .. MaxStride
IdBits == 1            \* width of the msg_id counter where it may wrap
MaxReqId == 1          \* requests carry a msg_id in 1 .. MaxReqId
MaxInFlight == 1       \* envelopes the network holds between nodes
MaxMembers == 5        \* longest membership list the topology derivation is given
MaxTopoStride == 5     \* STRIDE of the topology derivation is in 1 .. MaxTopoStride
RingNodes == 3         \* processes of the stride partition scenario
WideIdBits == 3        \* width of the msg_id counter where it must not wrap
LockMaxValue == 1      \* values are 1 .. LockMaxValue where the lock is followed
CounterNodes == 2      \* processes of the grow-only counter
MaxDelta == 1          \* add carries a delta in 1 .. MaxDelta
MaxAdded == 2          \* clients stop adding when the deltas sum to MaxAdded
MaxCounterId == 5      \* a counter process issues msg ids 1 .. MaxCounterId
MaxWire == 2           \* envelopes in flight between counter nodes and seq-kv

(***************************** state ***************************************)
VARIABLES
    state,      \* state[p]: the State behind the mutex of process p
    MSG_ID,     \* MSG_ID[p]: the static id counter of process p
    usize_bits, \* the width of usize, fixed by the build of the binary
    alive,      \* alive[p]: process p has neither panicked nor exited
    net,        \* envelopes written by a process and not yet read by its peer
    out,        \* the envelopes the last step wrote to the outbound queue
    last,       \* the last step: its process, its kind, the envelope handled,
                \* and whether it repeated the sync or the tick just before it
    appended,   \* appended[p][m]: values ever pushed to the queue kept for m
    acked,      \* acked[p][m]: values pushed for m that a sync_ok of m named
    lock,       \* lock[p]: the task of process p that holds the state mutex
    pc,         \* pc[p]: where the handler and the scheduler task of process p
                \* stand, and the envelope the handler has in hand
    counter,    \* counter[n]: the State of grow_only_counter process n
    counter_id, \* counter_id[n]: the static MSG_ID of grow_only_counter process n
    kv,         \* the value of key "counter" in seq-kv (None: no such key)
    wire,       \* envelopes in flight between the counter processes and seq-kv
    added       \* the sum of the deltas the counter processes answered add_ok

counter_vars == <<counter, counter_id, kv, wire, added>>

broadcast_vars == <<state, MSG_ID, usize_bits, alive, net, out, last, appended,
                    acked, lock, pc>>

vars == <<state, MSG_ID, usize_bits, alive, net, out, last, appended, acked,
          lock, pc, counter, counter_id, kv, wire, added>>

AllNames == <<"n0", "n1", "n2", "n3", "n4", "n5", "n6", "n7">>
Procs == DOMAIN state  \* the processes started: 1 .. NumNodes, or the ring's
NodeIds == {AllNames[i] : i \in Procs}
Client == "c1"
Values == 1..MaxValue
None == -1             \* Option::None of msg_id / in_reply_to
IdModulus == 2 ^ usize_bits

Range(s) == {s[i] : i \in 1..Len(s)}

(***************************************************************************)
(* Sequences over S of length at most n.                                   *)
(***************************************************************************)
SeqsUpTo(S, n) == UNION {[1..k -> S] : k \in 0..n}

(***************************************************************************)
(* All orders in which the members of a finite set can be iterated         *)
(* (HashMap / HashSet iteration order is unspecified).                     *)
(***************************************************************************)
Orders(S) == {o \in [1..Cardinality(S) -> S] : Range(o) = S}

(***************************** message.rs **********************************)
\* Envelope<Payload>: source, destination and the flattened body.  Fields a
\* payload kind does not carry hold their default.
Envelope(src, dest, msg_id, in_reply_to, type, msgs) ==
    [source |-> src, destination |-> dest, msg_id |-> msg_id,
     in_reply_to |-> in_reply_to, type |-> type, message |-> 0,
     messages |-> msgs, node_id |-> "", node_ids |-> <<>>]

\* Faulty reply_with: source and destination as in the request.
reply_unswapped(envelope, msg_id, type, msgs) ==
    Envelope(envelope.source, envelope.destination, msg_id, envelope.msg_id,
             type, msgs)

\* Envelope::reply_with: source and destination swapped, in_reply_to is the
\* request's msg_id.
reply_with(envelope, msg_id, type, msgs) ==
    Envelope(envelope.destination, envelope.source, msg_id, envelope.msg_id,
             type, msgs)

(***************************** broadcast.rs ********************************)
\* The tags serde accepts for Payload (tag = "type", snake_case variants).
PayloadTags ==
    {"init", "init_ok", "broadcast", "broadcast_ok", "read", "read_ok",
     "topology", "topology_ok", "sync", "sync_ok"}

\* message_id(): MSG_ID.fetch_add(1, SeqCst) returns the counter and advances
\* it; fetch_add(id, n) is the counter after n ids were issued from id.  The
\* counter wraps on overflow (usize in the source, IdBits wide here).
fetch_add(id, n) == (id + n) % IdModulus

\* HashMap<String, RemoteNode> with no entry.  A RemoteNode is modelled by its
\* unacknowledged_messages (its node_id is only traced).
NoNodes == [m \in {} |-> <<>>]

\* State::default() with the stride of the command line (server, 233-238).
DefaultState(stride) ==
    [my_id |-> "", all_node_ids |-> <<>>, neighbors |-> <<>>,
     nodes |-> NoNodes, messages |-> {}, stride |-> stride]

\* RemoteNode::send_message
send_message(node, message) == Append(node, message)

\* Faulty acknowledge_synced: clears the queue, whatever the list names.
acknowledge_all(node, messages) == <<>>

\* Faulty acknowledge_synced: drops only the first value the list names.
acknowledge_first(node, messages) ==
    LET kept(x) == messages = <<>> \/ messages[1] # x
    IN  SelectSeq(node, kept)

\* RemoteNode::acknowledge_synced: retain what the list does not contain.
acknowledge_synced(node, messages) ==
    LET kept(x) == \A i \in 1..Len(messages) : messages[i] # x
    IN  SelectSeq(node, kept)

\* RemoteNode::has_unacknowledged_messages
has_unacknowledged_messages(node) == Len(node) > 0

\* What a handler arm or a scheduler tick leaves behind: the state, the id
\* counter, the envelopes written to the outbound queue in order, and whether
\* an unwrap() panicked (the panic unwinds server() and ends the process).
Result(st, id, written, panic) ==
    [state |-> st, id |-> id, out |-> written, panic |-> panic]

\* Iterator::position: zero-based index of the first match, or None.
position(s, x) ==
    IF \E i \in 1..Len(s) : s[i] = x
    THEN (CHOOSE i \in 1..Len(s) :
              s[i] = x /\ \A j \in 1..(i - 1) : s[j] # x) - 1
    ELSE None

\* iter().skip(k).step_by(stride).cloned().collect()
skip_step_by(s, k, stride) ==
    LET n == Len(s)
        count == IF k >= n THEN 0 ELSE ((n - k - 1) \div stride) + 1
    IN  [j \in 1..count |-> s[k + (j - 1) * stride + 1]]

\* for neighbor in neighbors { nodes.insert(neighbor, Default::default()) }
insert_default(nodes, neighbors) ==
    [m \in DOMAIN nodes \cup Range(neighbors) |->
        IF m \in Range(neighbors) THEN <<>> ELSE nodes[m]]

\* Faulty fan-out: pushes to the first neighbour only.
push_first(nodes, neighbors, message) ==
    IF neighbors = <<>> THEN nodes
    ELSE [nodes EXCEPT ![Head(neighbors)] = send_message(@, message)]

\* for neighbor in neighbors { nodes.get_mut(&neighbor).unwrap().send_message(message) }
RECURSIVE push_each(_, _, _)
push_each(nodes, neighbors, message) ==
    IF neighbors = <<>> THEN nodes
    ELSE push_each([nodes EXCEPT ![Head(neighbors)] = send_message(@, message)],
                   Tail(neighbors), message)

\* The get_mut(..).unwrap() of the fan-out finds no entry for some neighbour.
unwrap_fails(st) == \E i \in 1..Len(st.neighbors) : st.neighbors[i] \notin DOMAIN st.nodes

\* Faulty Init arm: starts over with an empty ValueSet.
handle_init_forgets(st, id, envelope) ==
    Result([st EXCEPT !.my_id = envelope.node_id,
                      !.all_node_ids = envelope.node_ids,
                      !.messages = {}],
           fetch_add(id, 1),
           <<reply_with(envelope, id, "init_ok", <<>>)>>, FALSE)

\* Payload::Init arm
handle_init(st, id, envelope) ==
    Result([st EXCEPT !.my_id = envelope.node_id,
                      !.all_node_ids = envelope.node_ids],
           fetch_add(id, 1),
           <<reply_with(envelope, id, "init_ok", <<>>)>>, FALSE)

\* Faulty Topology arm: skips our_position + 1 entries, not reduced modulo
\* the stride.
handle_topology_no_mod(st, id, envelope) ==
    LET our_position == position(st.all_node_ids, st.my_id)
        neighbors == skip_step_by(st.all_node_ids, our_position + 1, st.stride)
    IN  IF our_position = None
        THEN Result(st, id, <<>>, TRUE)
        ELSE Result([st EXCEPT !.neighbors = neighbors,
                               !.nodes = insert_default(@, neighbors)],
                    fetch_add(id, 1),
                    <<reply_with(envelope, id, "topology_ok", <<>>)>>, FALSE)

\* Payload::Topology arm
handle_topology(st, id, envelope) ==
    LET our_position == position(st.all_node_ids, st.my_id)
        neighbors == skip_step_by(st.all_node_ids,
                                  (our_position + 1) % st.stride, st.stride)
    IN  IF our_position = None
        THEN Result(st, id, <<>>, TRUE)
        ELSE Result([st EXCEPT !.neighbors = neighbors,
                               !.nodes = insert_default(@, neighbors)],
                    fetch_add(id, 1),
                    <<reply_with(envelope, id, "topology_ok", <<>>)>>, FALSE)

\* Faulty Broadcast arm: assigns the ValueSet instead of inserting into it.
handle_broadcast_assigns(st, id, envelope) ==
    LET inserted == envelope.message \notin st.messages
    IN  Result([st EXCEPT
                   !.messages = {envelope.message},
                   !.nodes = IF inserted
                             THEN push_each(@, st.neighbors, envelope.message)
                             ELSE @],
               fetch_add(id, 1),
               <<reply_with(envelope, id, "broadcast_ok", <<>>)>>, FALSE)

\* Payload::Broadcast arm
handle_broadcast(st, id, envelope) ==
    LET inserted == envelope.message \notin st.messages
    IN  IF inserted /\ unwrap_fails(st)
        THEN Result(st, id, <<>>, TRUE)
        ELSE Result([st EXCEPT
                        !.messages = @ \cup {envelope.message},
                        !.nodes = IF inserted
                                  THEN push_each(@, st.neighbors, envelope.message)
                                  ELSE @],
                    fetch_add(id, 1),
                    <<reply_with(envelope, id, "broadcast_ok", <<>>)>>, FALSE)

\* State::seen_messages: the HashSet collected into a Vec, in whichever order
\* its iterator yields; every order is a possible result.
seen_messages(st) == Orders(st.messages)

\* Faulty Read arm: drains the HashSet into the reply.
handle_read_drains(st, id, envelope, order) ==
    Result([st EXCEPT !.messages = {}], fetch_add(id, 1),
           <<reply_with(envelope, id, "read_ok", order)>>, FALSE)

\* Payload::Read arm, with the vector seen_messages() returned.
handle_read(st, id, envelope, order) ==
    Result(st, fetch_add(id, 1),
           <<reply_with(envelope, id, "read_ok", order)>>, FALSE)

\* Faulty Sync loop: pushes every inbound value, known or not.
RECURSIVE sync_each_always(_, _)
sync_each_always(st, inbound) ==
    IF inbound = <<>> THEN st
    ELSE LET message == Head(inbound)
         IN  sync_each_always(
                 [st EXCEPT !.messages = @ \cup {message},
                            !.nodes = push_each(@, st.neighbors, message)],
                 Tail(inbound))

\* The loop of the Payload::Sync arm over the inbound list.
RECURSIVE sync_each(_, _)
sync_each(st, inbound) ==
    IF inbound = <<>> THEN st
    ELSE LET message == Head(inbound)
         IN  sync_each(IF message \notin st.messages
                       THEN [st EXCEPT !.messages = @ \cup {message},
                                       !.nodes = push_each(@, st.neighbors, message)]
                       ELSE st,
                       Tail(inbound))

\* Faulty Sync arm: acknowledges only the values that were new to it.
handle_sync_acks_new(st, id, envelope) ==
    LET new(x) == x \notin st.messages
    IN  IF unwrap_fails(st) /\ Range(envelope.messages) \ st.messages # {}
        THEN Result(st, id, <<>>, TRUE)
        ELSE Result(sync_each(st, envelope.messages), fetch_add(id, 1),
                    <<reply_with(envelope, id, "sync_ok",
                                 SelectSeq(envelope.messages, new))>>, FALSE)

\* Payload::Sync arm
handle_sync(st, id, envelope) ==
    IF unwrap_fails(st) /\ Range(envelope.messages) \ st.messages # {}
    THEN Result(st, id, <<>>, TRUE)
    ELSE Result(sync_each(st, envelope.messages), fetch_add(id, 1),
                <<reply_with(envelope, id, "sync_ok", envelope.messages)>>, FALSE)

\* Payload::SyncOk arm
handle_sync_ok(st, id, envelope) ==
    IF envelope.source \notin DOMAIN st.nodes
    THEN Result(st, id, <<>>, TRUE)
    ELSE Result([st EXCEPT !.nodes[envelope.source] =
                               acknowledge_synced(@, envelope.messages)],
                id, <<>>, FALSE)

\* handle_envelope: dispatch on the payload kind; `_ => {}` for the rest.
handle_envelope(st, id, envelope, order) ==
    CASE envelope.type = "init" -> handle_init(st, id, envelope)
      [] envelope.type = "topology" -> handle_topology(st, id, envelope)
      [] envelope.type = "broadcast" -> handle_broadcast(st, id, envelope)
      [] envelope.type = "read" -> handle_read(st, id, envelope, order)
      [] envelope.type = "sync" -> handle_sync(st, id, envelope)
      [] envelope.type = "sync_ok" -> handle_sync_ok(st, id, envelope)
      [] OTHER -> Result(st, id, <<>>, FALSE)

\* Faulty tick: empties a queue once it has been sent.
gossip_drains(st, id, order) ==
    Result([st EXCEPT !.nodes = [m \in DOMAIN st.nodes |-> <<>>]],
           fetch_add(id, Len(order)),
           [i \in 1..Len(order) |->
               Envelope(st.my_id, order[i], fetch_add(id, i - 1), None,
                        "sync", st.nodes[order[i]])],
           FALSE)

\* Faulty tick: takes one id before the loop and gives it to every sync.
gossip_one_id(st, id, order) ==
    Result(st, fetch_add(id, 1),
           [i \in 1..Len(order) |->
               Envelope(st.my_id, order[i], id, None,
                        "sync", st.nodes[order[i]])],
           FALSE)

\* One pass of the loop of gossip_every_so_often: a sync to every entry of
\* state.nodes with unacknowledged messages, in the map's iteration order.
gossip(st, id, order) ==
    Result(st, fetch_add(id, Len(order)),
           [i \in 1..Len(order) |->
               Envelope(st.my_id, order[i], fetch_add(id, i - 1), None,
                        "sync", st.nodes[order[i]])],
           FALSE)

\* The entries the scheduler's loop sends to.
unacknowledged(st) ==
    {m \in DOMAIN st.nodes : has_unacknowledged_messages(st.nodes[m])}

(***************************** processes ***********************************)
NoEnvelope == Envelope("", "", None, None, "none", <<>>)

\* grow_only_counter.rs, State::default(): the fields the counter uses.
CounterDefault ==
    [my_id |-> "", all_node_ids |-> <<>>, uncommitted_total |-> 0,
     last_known_committed_total |-> 0, cas_deltas |-> [i \in {} |-> 0]]

\* The processes procs behind their State::default(), started with
\* STRIDE = stride by a build whose usize is bits wide.
Boot(procs, stride, bits) ==
    /\ state = [p \in procs |-> DefaultState(stride)]
    /\ MSG_ID = [p \in procs |-> 1]
    /\ usize_bits = bits
    /\ alive = [p \in procs |-> TRUE]
    /\ net = {}
    /\ out = <<>>
    /\ last = [proc |-> 0, op |-> "none", env |-> NoEnvelope, again |-> FALSE]
    /\ appended = [p \in procs |-> [m \in {AllNames[i] : i \in procs} |-> {}]]
    /\ acked = [p \in procs |-> [m \in {AllNames[i] : i \in procs} |-> {}]]
    /\ lock = [p \in procs |-> "free"]
    /\ pc = [p \in procs |-> [handler |-> "recv", envelope |-> NoEnvelope,
                              scheduler |-> "start"]]
    /\ counter = [n \in 1..CounterNodes |-> CounterDefault]
    /\ counter_id = [n \in 1..CounterNodes |-> 1]
    /\ kv = None
    /\ wire = {}
    /\ added = 0

Started(stride) == Boot(1..NumNodes, stride, IdBits)

Init == \E stride \in 1..MaxStride : Started(stride)

\* The step now taken: process p doing op on envelope.
Did(p, op, envelope) ==
    [proc |-> p, op |-> op, env |-> envelope,
     again |-> /\ op = "tick" \/ envelope.type = "sync"
               /\ last.proc = p /\ last.op = op /\ last.env = envelope]

\* The values of the queue kept for m (none when there is no entry for m).
Pending(st, m) == IF m \in DOMAIN st.nodes THEN Range(st.nodes[m]) ELSE {}

\* Bookkeeping of a step of process p from st to r.state: what entered a
\* queue, and what a handled sync_ok acknowledged of the values pushed so far.
Record(p, st, r, envelope) ==
    /\ appended' = [appended EXCEPT ![p] =
           [m \in NodeIds |-> @[m] \cup (Pending(r.state, m) \ Pending(st, m))]]
    /\ acked' = [acked EXCEPT ![p] =
           [m \in NodeIds |->
               IF envelope.type = "sync_ok" /\ envelope.source = m /\ ~r.panic
               THEN @[m] \cup (Range(envelope.messages) \cap appended[p][m])
               ELSE @[m]]]

\* handle_envelope on one envelope: the arm's effect on the state, the id
\* counter and the outbound queue.
Reaction(p, envelope) ==
    /\ alive[p]
    /\ envelope.type \in PayloadTags
    /\ \E order \in (IF envelope.type = "read"
                     THEN seen_messages(state[p]) ELSE {<<>>}) :
         LET r == handle_envelope(state[p], MSG_ID[p], envelope, order)
         IN  /\ state' = [state EXCEPT ![p] = r.state]
             /\ MSG_ID' = [MSG_ID EXCEPT ![p] = r.id]
             /\ alive' = [alive EXCEPT ![p] = ~r.panic]
             /\ out' = r.out
             /\ last' = Did(p, "handle", envelope)
             /\ Record(p, state[p], r, envelope)
             /\ UNCHANGED <<usize_bits, counter_vars>>

\* server(): the loop reads one envelope and awaits handle_envelope on it.
\* The arm locks on its first line and unlocks at its end: one step.
Handle(p, envelope) ==
    /\ Reaction(p, envelope)
    /\ UNCHANGED <<lock, pc>>

\* io_channel's read task on a line that does not deserialize into
\* Envelope<Payload>: it breaks out of its loop and drops the inbound sender,
\* so reader.recv() yields None, server() returns and main ends the process
\* with its scheduler.  Nothing reaches the handler.
EndOfInput(p, envelope) ==
    /\ alive[p]
    /\ envelope.type \notin PayloadTags
    /\ alive' = [alive EXCEPT ![p] = FALSE]
    /\ out' = <<>>
    /\ last' = Did(p, "read_line", envelope)
    /\ UNCHANGED <<state, MSG_ID, usize_bits, appended, acked, lock, pc,
                   counter_vars>>

\* The block of gossip_every_so_often that runs with the mutex held.
Scan(p) ==
    /\ alive[p]
    /\ \E order \in Orders(unacknowledged(state[p])) :
         LET r == gossip(state[p], MSG_ID[p], order)
         IN  /\ state' = [state EXCEPT ![p] = r.state]
             /\ MSG_ID' = [MSG_ID EXCEPT ![p] = r.id]
             /\ out' = r.out
             /\ last' = Did(p, "tick", NoEnvelope)
             /\ Record(p, state[p], r, NoEnvelope)
             /\ UNCHANGED <<alive, usize_bits, counter_vars>>

\* gossip_every_so_often: one tick of the interval, lock to unlock.
Gossip(p) ==
    /\ Scan(p)
    /\ UNCHANGED <<lock, pc>>

(***************************** one process *********************************)
\* A single process fed arbitrary lines on stdin.  The first step picks the
\* process, which fixes its index in the membership; the others stay unborn.
ReqIds == 1..MaxReqId
Lists == SeqsUpTo(Values, MaxLen)
MemberLists == {SubSeq(AllNames, 1, k) : k \in 1..NumNodes}

Request(p, src, msg_id, type) ==
    Envelope(src, AllNames[p], msg_id, None, type, <<>>)

UnderTest(p) == last.proc \in {0, p}

RecvInit(p) ==
    /\ UnderTest(p)
    /\ \E msg_id \in ReqIds, node_ids \in MemberLists :
         Handle(p, [Request(p, Client, msg_id, "init") EXCEPT
                       !.node_id = AllNames[p], !.node_ids = node_ids])
    /\ UNCHANGED net

RecvTopology(p) ==
    /\ UnderTest(p)
    /\ \E msg_id \in ReqIds : Handle(p, Request(p, Client, msg_id, "topology"))
    /\ UNCHANGED net

RecvBroadcast(p) ==
    /\ UnderTest(p)
    /\ \E msg_id \in ReqIds, message \in Values :
         Handle(p, [Request(p, Client, msg_id, "broadcast") EXCEPT
                       !.message = message])
    /\ UNCHANGED net

RecvRead(p) ==
    /\ UnderTest(p)
    /\ \E msg_id \in ReqIds : Handle(p, Request(p, Client, msg_id, "read"))
    /\ UNCHANGED net

RecvSync(p) ==
    /\ UnderTest(p)
    /\ \E src \in NodeIds, msg_id \in ReqIds, messages \in Lists :
         Handle(p, [Request(p, src, msg_id, "sync") EXCEPT !.messages = messages])
    /\ UNCHANGED net

RecvSyncOk(p) ==
    /\ UnderTest(p)
    /\ \E src \in NodeIds, msg_id \in ReqIds, messages \in Lists :
         Handle(p, [Request(p, src, msg_id, "sync_ok") EXCEPT !.messages = messages])
    /\ UNCHANGED net

\* A payload kind the handler has no arm for (the *_ok kinds of clients).
RecvOther(p) ==
    /\ UnderTest(p)
    /\ \E msg_id \in ReqIds : Handle(p, Request(p, Client, msg_id, "broadcast_ok"))
    /\ UNCHANGED net

\* A line whose type tag Payload does not know.
RecvUnknown(p) ==
    /\ UnderTest(p)
    /\ \E msg_id \in ReqIds : EndOfInput(p, Request(p, Client, msg_id, "unknown"))
    /\ UNCHANGED net

Tick(p) ==
    /\ UnderTest(p)
    /\ Gossip(p)
    /\ UNCHANGED net

Next ==
    \E p \in 1..NumNodes :
        \/ RecvInit(p)
        \/ RecvTopology(p)
        \/ RecvBroadcast(p)
        \/ RecvRead(p)
        \/ RecvSync(p)
        \/ RecvSyncOk(p)
        \/ RecvOther(p)
        \/ RecvUnknown(p)
        \/ Tick(p)

Spec == Init /\ [][Next]_vars

(***************************** the network *********************************)
\* NumNodes processes started with the same STRIDE.  Clients send init first
\* and once, then topology (which they may send again), and broadcast to a
\* node that has its neighbours; what a process writes for another node stays
\* in flight until that node reads it.
Membership == [i \in Procs |-> AllNames[i]]
ProcOf(name) == CHOOSE p \in Procs : AllNames[p] = name
ClientMsgId == MaxReqId

\* The envelopes of a step's output that are addressed to nodes.
ToNodes(written) ==
    {written[i] : i \in {j \in 1..Len(written) : written[j].destination \in NodeIds}}

ClientInit(p) ==
    /\ state[p].my_id = ""
    /\ Handle(p, [Request(p, Client, ClientMsgId, "init") EXCEPT
                     !.node_id = AllNames[p], !.node_ids = Membership])
    /\ UNCHANGED net

ClientTopology(p) ==
    /\ state[p].my_id # ""
    /\ Handle(p, Request(p, Client, ClientMsgId, "topology"))
    /\ UNCHANGED net

\* Clients broadcast distinct values: one nobody holds yet.
ClientBroadcast(p) ==
    /\ state[p].neighbors # <<>>
    /\ \E message \in Values :
         /\ \A q \in Procs : message \notin state[q].messages
         /\ Handle(p, [Request(p, Client, ClientMsgId, "broadcast") EXCEPT
                       !.message = message])
    /\ UNCHANGED net

Deliver(envelope) ==
    /\ envelope \in net
    /\ Handle(ProcOf(envelope.destination), envelope)
    /\ net' = (net \ {envelope}) \cup ToNodes(out')

\* The network holds at most MaxInFlight envelopes: a tick that would exceed
\* it is taken once the peers have read.
Send(p) ==
    /\ Gossip(p)
    /\ net' = net \cup ToNodes(out')
    /\ Cardinality(net') <= MaxInFlight

NextNet ==
    \/ \E p \in 1..NumNodes : ClientInit(p)
    \/ \E p \in 1..NumNodes : ClientTopology(p)
    \/ \E p \in 1..NumNodes : ClientBroadcast(p)
    \/ \E envelope \in net : Deliver(envelope)
    \/ \E p \in 1..NumNodes : Send(p)

\* The interval fires forever at every process, and every node keeps reading
\* what is in flight to it.
Fair(procs) ==
    /\ \A p \in procs : WF_vars(Send(p))
    /\ \A p \in procs :
         WF_vars(\E envelope \in net :
                    envelope.destination = AllNames[p] /\ Deliver(envelope))

Fairness == Fair(1..NumNodes)

\* STRIDE = NumNodes: node i gossips to node i+1, a directed ring.
InitNet == Started(NumNodes)

LiveSpec == InitNet /\ [][NextNet]_vars /\ Fairness

(***************************** the state mutex *****************************)
\* One process followed lock by lock: its handler task (the loop of server)
\* and its scheduler task (gossip_every_so_often) around the one
\* Arc<Mutex<State>>.  No await lies between a lock() and the drop of its
\* guard, so a critical section is one step once the mutex is taken.
Locking == {"init", "topology", "broadcast", "read", "sync", "sync_ok"}
LockLists == SeqsUpTo(1..LockMaxValue, 1)

\* The lines the handler task is fed.
LockInputs(p) ==
    {[Request(p, Client, ClientMsgId, "init") EXCEPT
         !.node_id = AllNames[p], !.node_ids = Membership]}
    \cup {Request(p, Client, ClientMsgId, type) :
             type \in {"topology", "read", "broadcast_ok"}}
    \cup {[Request(p, Client, ClientMsgId, "broadcast") EXCEPT !.message = v] :
             v \in 1..LockMaxValue}
    \cup {[Request(p, src, ClientMsgId, type) EXCEPT !.messages = messages] :
             src \in NodeIds, type \in {"sync", "sync_ok"}, messages \in LockLists}

\* Mutex::lock(): returns once no task holds the mutex.
Acquire(p, task) ==
    /\ lock[p] = "free"
    /\ lock' = [lock EXCEPT ![p] = task]

\* Faulty unlock: the guard is leaked (mem::forget) and the mutex stays held.
Release_leaks(p, task) == UNCHANGED lock

\* The MutexGuard goes out of scope (also when a panic unwinds the arm).
Release(p, task) == lock' = [lock EXCEPT ![p] = "free"]

\* reader.recv().await yields an envelope whose arm starts with state.lock().
HandlerRecv(p) ==
    /\ alive[p] /\ pc[p].handler = "recv"
    /\ \E envelope \in LockInputs(p) :
         /\ envelope.type \in Locking
         /\ pc' = [pc EXCEPT ![p].handler = "lock", ![p].envelope = envelope]
    /\ UNCHANGED <<state, MSG_ID, usize_bits, alive, net, out, last, appended,
                   acked, lock, counter_vars>>

\* reader.recv().await yields an envelope of a kind without an arm: `_ => {}`
\* touches neither the mutex nor the state.
HandlerSkip(p) ==
    /\ pc[p].handler = "recv"
    /\ \E envelope \in LockInputs(p) :
         /\ envelope.type \notin Locking
         /\ Reaction(p, envelope)
    /\ UNCHANGED <<net, lock, pc>>

\* The first line of the arm: let mut state = state.lock().unwrap().
HandlerLock(p) ==
    /\ alive[p] /\ pc[p].handler = "lock"
    /\ Acquire(p, "handler")
    /\ pc' = [pc EXCEPT ![p].handler = "critical"]
    /\ UNCHANGED <<state, MSG_ID, usize_bits, alive, net, out, last, appended,
                   acked, counter_vars>>

\* The rest of the arm, to the drop of the guard at its end.
HandlerArm(p) ==
    /\ pc[p].handler = "critical"
    /\ Reaction(p, pc[p].envelope)
    /\ Release(p, "handler")
    /\ pc' = [pc EXCEPT ![p].handler = "recv", ![p].envelope = NoEnvelope]
    /\ UNCHANGED net

\* gossip_every_so_often, line 204: state.lock() for the tick rate.
SchedulerStart(p) ==
    /\ alive[p] /\ pc[p].scheduler = "start"
    /\ Acquire(p, "scheduler")
    /\ pc' = [pc EXCEPT ![p].scheduler = "rate"]
    /\ UNCHANGED <<state, MSG_ID, usize_bits, alive, net, out, last, appended,
                   acked, counter_vars>>

\* The temporary guard of line 204 is dropped; the task awaits its interval.
SchedulerRate(p) ==
    /\ alive[p] /\ pc[p].scheduler = "rate"
    /\ Release(p, "scheduler")
    /\ pc' = [pc EXCEPT ![p].scheduler = "sleep"]
    /\ UNCHANGED <<state, MSG_ID, usize_bits, alive, net, out, last, appended,
                   acked, counter_vars>>

\* interval.tick().await completes.
SchedulerWake(p) ==
    /\ alive[p] /\ pc[p].scheduler = "sleep"
    /\ pc' = [pc EXCEPT ![p].scheduler = "lock"]
    /\ UNCHANGED <<state, MSG_ID, usize_bits, alive, net, out, last, appended,
                   acked, lock, counter_vars>>

\* let mut state = state.lock().unwrap() of the loop's block.
SchedulerLock(p) ==
    /\ alive[p] /\ pc[p].scheduler = "lock"
    /\ Acquire(p, "scheduler")
    /\ pc' = [pc EXCEPT ![p].scheduler = "critical"]
    /\ UNCHANGED <<state, MSG_ID, usize_bits, alive, net, out, last, appended,
                   acked, counter_vars>>

\* The block of the loop, to the drop of the guard at its closing brace.
SchedulerBlock(p) ==
    /\ pc[p].scheduler = "critical"
    /\ Scan(p)
    /\ Release(p, "scheduler")
    /\ pc' = [pc EXCEPT ![p].scheduler = "sleep"]
    /\ UNCHANGED net

NextLock ==
    \E p \in {1} :
        \/ HandlerRecv(p)
        \/ HandlerSkip(p)
        \/ HandlerLock(p)
        \/ HandlerArm(p)
        \/ SchedulerStart(p)
        \/ SchedulerRate(p)
        \/ SchedulerWake(p)
        \/ SchedulerLock(p)
        \/ SchedulerBlock(p)

\* A critical section runs to its end, the interval fires, and a task
\* blocked in lock() gets the mutex when it is free again and again.
FairLock ==
    \A p \in {1} :
        /\ WF_vars(HandlerArm(p))
        /\ WF_vars(SchedulerRate(p))
        /\ WF_vars(SchedulerBlock(p))
        /\ WF_vars(SchedulerWake(p))
        /\ SF_vars(HandlerLock(p))
        /\ SF_vars(SchedulerStart(p))
        /\ SF_vars(SchedulerLock(p))

InitLock == \E stride \in 1..MaxStride : Started(stride)

LockSpec == InitLock /\ [][NextLock]_vars /\ FairLock

(***************************** the id counter ******************************)
\* One process of a build whose usize is WideIdBits wide, fed arbitrary lines
\* and ticking, up to the step before its counter could wrap: a reaction
\* takes one id and a tick at most one per entry of state.nodes.
BelowWrap(p) == MSG_ID[p] + NumNodes < IdModulus

IdRecvInit(p) == BelowWrap(p) /\ RecvInit(p)
IdRecvTopology(p) == BelowWrap(p) /\ RecvTopology(p)
IdRecvBroadcast(p) == BelowWrap(p) /\ RecvBroadcast(p)
IdRecvRead(p) == BelowWrap(p) /\ RecvRead(p)
IdRecvSync(p) == BelowWrap(p) /\ RecvSync(p)
IdRecvSyncOk(p) == BelowWrap(p) /\ RecvSyncOk(p)
IdRecvOther(p) == BelowWrap(p) /\ RecvOther(p)
IdTick(p) == BelowWrap(p) /\ Tick(p)

NextId ==
    \E p \in 1..NumNodes :
        \/ IdRecvInit(p)
        \/ IdRecvTopology(p)
        \/ IdRecvBroadcast(p)
        \/ IdRecvRead(p)
        \/ IdRecvSync(p)
        \/ IdRecvSyncOk(p)
        \/ IdRecvOther(p)
        \/ IdTick(p)

InitId == \E stride \in 1..MaxStride : Boot(1..NumNodes, stride, WideIdBits)

IdSpec == InitId /\ [][NextId]_vars

(***************************** topology derivation *************************)
\* One process told any membership of up to MaxMembers ids with any of them
\* as its own, under any stride up to MaxTopoStride; then topology, with
\* broadcasts before and after it.
TopoLists == {SubSeq(AllNames, 1, k) : k \in 1..MaxMembers}

TopoInit ==
    /\ state[1].my_id = ""
    /\ \E node_ids \in TopoLists : \E node_id \in Range(node_ids) :
         Handle(1, [Envelope(Client, node_id, ClientMsgId, None, "init", <<>>)
                       EXCEPT !.node_id = node_id, !.node_ids = node_ids])
    /\ UNCHANGED net

TopoTopology ==
    /\ state[1].my_id # ""
    /\ Handle(1, Envelope(Client, state[1].my_id, ClientMsgId, None,
                          "topology", <<>>))
    /\ UNCHANGED net

TopoBroadcast ==
    /\ state[1].my_id # ""
    /\ \E message \in Values :
         Handle(1, [Envelope(Client, state[1].my_id, ClientMsgId, None,
                             "broadcast", <<>>) EXCEPT !.message = message])
    /\ UNCHANGED net

NextTopo == TopoInit \/ TopoTopology \/ TopoBroadcast

InitTopo == \E stride \in 1..MaxTopoStride : Boot({1}, stride, IdBits)

TopoSpec == InitTopo /\ [][NextTopo]_vars

(***************************** stride partition ring ***********************)
\* RingNodes processes started with STRIDE = RingNodes.  Every node handles
\* init and then topology once; when all have their neighbours, clients
\* broadcast distinct values at the first node.
RingProcs == 1..RingNodes

RingTopology(p) ==
    /\ state[p].neighbors = <<>>
    /\ ClientTopology(p)

RingBroadcast ==
    /\ \A q \in Procs : state[q].neighbors # <<>>
    /\ ClientBroadcast(1)

NextRing ==
    \/ \E p \in RingProcs : ClientInit(p)
    \/ \E p \in RingProcs : RingTopology(p)
    \/ RingBroadcast
    \/ \E envelope \in net : Deliver(envelope)
    \/ \E p \in RingProcs : Send(p)

InitRing == Boot(RingProcs, RingNodes, IdBits)

RingSpec == InitRing /\ [][NextRing]_vars /\ Fair(RingProcs)

(***************************** claims **************************************)
\* The neighbour graph of the network: p gossips to q.
Edge(p, q) == AllNames[q] \in Range(state[p].neighbors)

RECURSIVE ReachedFrom(_)
ReachedFrom(S) ==
    LET T == S \cup {q \in Procs : \E p \in S : Edge(p, q)}
    IN  IF T = S THEN S ELSE ReachedFrom(T)

\* Every node reaches every node over the stride-derived edges.
Connected == \A p \in Procs : ReachedFrom({p}) = Procs

\* Some node holds v: in the network every value comes from a broadcast that
\* was answered broadcast_ok.
Accepted(v) == \E p \in Procs : v \in state[p].messages

\* Whatever vector a read at q would reply now contains v.
ReadHas(q, v) == \A order \in seen_messages(state[q]) : v \in Range(order)

\* C1: with a connected neighbour graph, ticks and deliveries fair forever,
\* every value accepted by a broadcast at some node is eventually in the
\* read_ok reply of every node.
C1_Convergence ==
    \A v \in Values :
        (Connected /\ Accepted(v)) ~> (\A q \in Procs : ReadHas(q, v))

\* The step just taken was process p handling an envelope of one of kinds.
Handled(p, kinds) ==
    last'.proc = p /\ last'.op = "handle" /\ last'.env.type \in kinds

\* The step just taken was process p handling an envelope of one of kinds,
\* and the arm ran to its end.
Completed(p, kinds) == Handled(p, kinds) /\ alive'[p]

\* Number of entries of queue s equal to v.
Count(s, v) == Cardinality({i \in 1..Len(s) : s[i] = v})

\* C2: no step of a node (any payload kind, any tick) removes a value from
\* its ValueSet.
C2_Monotonic ==
    [][\A p \in Procs : state[p].messages \subseteq state'[p].messages]_vars

\* A node that holds every value has just handled a further init.
C2_Witness ==
    \E p \in Procs :
        /\ state[p].messages = Values
        /\ last.proc = p /\ last.env.type = "init"

\* C3: every value pending for a neighbour is in the node's ValueSet.
C3_PendingInValueSet ==
    \A p \in Procs : \A m \in DOMAIN state[p].nodes :
        Range(state[p].nodes[m]) \subseteq state[p].messages

\* Two values are pending for a peer of a node.
C3_Witness ==
    \E p \in Procs : \E m \in DOMAIN state[p].nodes :
        Len(state[p].nodes[m]) >= 2

\* C4: a step that inserts a value into ValueSet is a broadcast or sync
\* reaction that leaves the value in the queue of every current neighbour.
C4_InsertFansOut ==
    [][\A p \in Procs : \A v \in state'[p].messages \ state[p].messages :
          /\ Handled(p, {"broadcast", "sync"})
          /\ \A i \in 1..Len(state'[p].neighbors) :
               /\ state'[p].neighbors[i] \in DOMAIN state'[p].nodes
               /\ Count(state'[p].nodes[state'[p].neighbors[i]], v) >= 1
               /\ Count(state[p].nodes[state[p].neighbors[i]], v) = 0]_vars

\* A sync has just put a value in the queues of two neighbours at once.
C4_Witness ==
    \E p \in Procs :
        /\ last.proc = p /\ last.env.type = "sync"
        /\ Len(state[p].neighbors) >= 2
        /\ \A i \in 1..Len(state[p].neighbors) :
             Range(last.env.messages) \cap Pending(state[p], state[p].neighbors[i]) # {}

\* C5: a broadcast or sync appends nothing for a value the node already
\* holds; no queue holds a value twice or is longer than ValueSet is large.
C5_FirstSightingOnly ==
    [][\A p \in Procs :
          /\ Handled(p, {"broadcast", "sync"}) =>
                \A m \in DOMAIN state[p].nodes : \A v \in state[p].messages :
                    Count(state'[p].nodes[m], v) = Count(state[p].nodes[m], v)
          /\ \A m \in DOMAIN state'[p].nodes :
                /\ \A v \in Values : Count(state'[p].nodes[m], v) <= 1
                /\ Len(state'[p].nodes[m]) <= Cardinality(state'[p].messages)]_vars

\* A sync naming the same value twice was handled by a node with a neighbour
\* whose queue no longer holds that value although it was pushed before.
C5_Witness ==
    \E p \in Procs : \E m \in DOMAIN state[p].nodes :
        /\ last.proc = p /\ last.env.type = "sync"
        /\ Len(last.env.messages) = 2
        /\ last.env.messages[1] = last.env.messages[2]
        /\ last.env.messages[1] \in acked[p][m]
        /\ last.env.messages[1] \notin Range(state[p].nodes[m])
        /\ m \in Range(state[p].neighbors)

\* C6: a sync handled right after the same sync was handled leaves the
\* node's state (ValueSet, queues and all) as the first delivery left it.
C6_SyncIdempotent ==
    [][\A p \in Procs :
          (Handled(p, {"sync"}) /\ last'.again) => state'[p] = state[p]]_vars

\* A sync of two distinct values was delivered twice in a row to a node that
\* has both of them queued for a neighbour.
C6_Witness ==
    \E p \in Procs : \E m \in DOMAIN state[p].nodes :
        /\ last.proc = p /\ last.env.type = "sync" /\ last.again
        /\ Cardinality(Range(last.env.messages)) = 2
        /\ Range(last.env.messages) \subseteq Range(state[p].nodes[m])

\* C7: a value leaves the queue kept for m only in a step that handles a
\* sync_ok whose source is m.
C7_OnlyAckRemoves ==
    [][\A p \in Procs : \A m \in DOMAIN state[p].nodes :
          \A v \in Range(state[p].nodes[m]) :
              v \notin Pending(state'[p], m) =>
                  (Handled(p, {"sync_ok"}) /\ last'.env.source = m)]_vars

\* C8: handling sync_ok(values) from m removes from the queue of m exactly
\* the entries named in values, keeps the others in their order, and changes
\* nothing else of the node.
C8_AckExactlyReceived ==
    [][\A p \in Procs : \A m \in NodeIds :
          (Handled(p, {"sync_ok"}) /\ last'.env.source = m /\ alive'[p]) =>
              LET unnamed(x) == x \notin Range(last'.env.messages)
              IN  /\ m \in DOMAIN state[p].nodes
                  /\ state'[p] = [state[p] EXCEPT
                                     !.nodes[m] = SelectSeq(@, unnamed)]]_vars

\* A sync_ok of m naming a value pushed for m was handled while a value it
\* does not name had been pushed for m as well: that one is still queued.
C8_Witness ==
    \E p \in Procs : \E m \in DOMAIN state[p].nodes :
        /\ last.proc = p /\ last.env.type = "sync_ok" /\ last.env.source = m
        /\ Range(last.env.messages) \cap appended[p][m] # {}
        /\ state[p].nodes[m] # <<>>
        /\ Range(state[p].nodes[m]) \cap Range(last.env.messages) = {}

\* C9: when the sync_ok replies of m have named every value ever pushed to
\* the queue of m, that queue is empty.
C9_PendingConvergence ==
    \A p \in Procs : \A m \in DOMAIN state[p].nodes :
        appended[p][m] \subseteq acked[p][m] => state[p].nodes[m] = <<>>

\* Every value was pushed for a neighbour and acknowledged by it.
C9_Witness ==
    \E p \in Procs : \E m \in DOMAIN state[p].nodes :
        /\ appended[p][m] = Values
        /\ acked[p][m] = Values
        /\ m \in Range(state[p].neighbors)

\* C10: a tick changes no node state and writes, for every peer with a
\* non-empty queue, exactly one sync carrying that whole queue, and nothing
\* for a peer whose queue is empty.
C10_TickResends ==
    [][\A p \in Procs :
          (last'.proc = p /\ last'.op = "tick") =>
              LET nodes == state[p].nodes
              IN  /\ state' = state
                  /\ \A m \in DOMAIN nodes :
                       Cardinality({i \in 1..Len(out') : out'[i].destination = m})
                           = IF nodes[m] # <<>> THEN 1 ELSE 0
                  /\ \A i \in 1..Len(out') :
                       /\ out'[i].type = "sync"
                       /\ out'[i].source = state[p].my_id
                       /\ out'[i].in_reply_to = None
                       /\ out'[i].destination \in DOMAIN nodes
                       /\ out'[i].messages = nodes[out'[i].destination]]_vars

\* A tick that repeats the tick before it has sent two syncs again, one of
\* them carrying a queue of two values.
C10_Witness ==
    /\ last.op = "tick" /\ last.again
    /\ Len(out) = 2
    /\ \E i \in 1..Len(out) : Len(out[i].messages) = 2

\* The members of L at the zero-based indices i with i mod s = (p+1) mod s.
NextClass(L, p, s) ==
    {L[i + 1] : i \in {j \in 0..(Len(L) - 1) : j % s = (p + 1) % s}}

\* C11: a handled topology leaves as Neighbor Set the members of Membership
\* whose index is congruent to the node's index plus one modulo the stride,
\* each with an empty queue.
C11_TopologyDerivation ==
    [][\A p \in Procs : Completed(p, {"topology"}) =>
          LET L == state[p].all_node_ids
          IN  \A i \in 0..(Len(L) - 1) : L[i + 1] = state[p].my_id =>
                  /\ Range(state'[p].neighbors) = NextClass(L, i, state[p].stride)
                  /\ \A m \in NextClass(L, i, state[p].stride) :
                        /\ m \in DOMAIN state'[p].nodes
                        /\ state'[p].nodes[m] = <<>>]_vars

\* The second of five members, with stride 2, has derived the three members
\* of even index as its neighbours.
C11_Witness ==
    \E p \in Procs :
        /\ last.proc = p /\ last.env.type = "topology" /\ alive[p]
        /\ state[p].stride = 2
        /\ state[p].my_id = AllNames[2]
        /\ Len(state[p].all_node_ids) = 5
        /\ state[p].neighbors = <<AllNames[1], AllNames[3], AllNames[5]>>

\* C12: a handled topology leaves no neighbour whose index is congruent to
\* the node's own modulo the stride, in particular not the node itself, and
\* with stride 1 leaves exactly all the other nodes.
C12_NoOwnClass ==
    [][\A p \in Procs : Completed(p, {"topology"}) =>
          LET L == state[p].all_node_ids
              s == state[p].stride
          IN  /\ \A i, j \in 0..(Len(L) - 1) :
                    (L[i + 1] = state[p].my_id
                        /\ L[j + 1] \in Range(state'[p].neighbors))
                    => j % s # i % s
              /\ state[p].my_id \notin Range(state'[p].neighbors)
              /\ s = 1 => Range(state'[p].neighbors) = Range(L) \ {state[p].my_id}]_vars

\* The node after p, and the node before p, on the ring.
Succ(p) == (p % RingNodes) + 1
Pred(p) == ((p + RingNodes - 2) % RingNodes) + 1

\* C13: on the ring of stride RingNodes every node's only neighbour is its
\* successor; a tick of a node writes to its successor only; a value enters
\* a node other than the first only when that node handles a sync of its
\* predecessor, which leaves the node holding every value of that sync; a
\* sync of the last node changes nothing at the first; and a value held by
\* the first node is eventually held by every node.
C13_StridePartition ==
    /\ [][\A p \in RingProcs :
             /\ Completed(p, {"topology"}) =>
                    state'[p].neighbors = <<AllNames[Succ(p)]>>
             /\ (last'.proc = p /\ last'.op = "tick") =>
                    \A i \in 1..Len(out') : out'[i].destination = AllNames[Succ(p)]
             /\ (Handled(p, {"sync"}) /\ last'.env.source = AllNames[Pred(p)]) =>
                    Range(last'.env.messages) \subseteq state'[p].messages
             /\ (p # 1 /\ state'[p].messages # state[p].messages) =>
                    (Handled(p, {"sync"}) /\ last'.env.source = AllNames[Pred(p)])
             /\ (p = 1 /\ Handled(p, {"sync"})) => state'[p] = state[p]]_vars
    /\ \A v \in Values :
          (v \in state[1].messages) ~> (\A q \in RingProcs : v \in state[q].messages)

\* The first node has just handled the sync of the last node that carries a
\* value every node holds, two hops after it was broadcast.
C13_Witness ==
    /\ last.proc = 1 /\ last.env.type = "sync"
    /\ last.env.source = AllNames[RingNodes]
    /\ last.env.messages # <<>>
    /\ \A q \in RingProcs : Range(last.env.messages) \subseteq state[q].messages

\* The payload kinds handle_envelope replies to, and the kind of the reply.
Requests == {"init", "topology", "broadcast", "read", "sync"}
ReplyKind(type) ==
    CASE type = "init" -> "init_ok"
      [] type = "topology" -> "topology_ok"
      [] type = "broadcast" -> "broadcast_ok"
      [] type = "read" -> "read_ok"
      [] type = "sync" -> "sync_ok"

\* C14: a handled init, topology, broadcast, read or sync writes exactly one
\* envelope: the matching _ok kind, from the request's destination to its
\* source, in reply to the request's msg_id; any other kind that reaches the
\* handler writes nothing.
C14_OneReply ==
    [][\A p \in Procs :
          /\ Completed(p, Requests) =>
                /\ Len(out') = 1
                /\ out'[1].type = ReplyKind(last'.env.type)
                /\ out'[1].source = last'.env.destination
                /\ out'[1].destination = last'.env.source
                /\ out'[1].in_reply_to = last'.env.msg_id
          /\ (last'.proc = p /\ last'.op = "handle"
                  /\ last'.env.type \notin Requests) => out' = <<>>]_vars

\* A broadcast of a value the node held already (it was never pushed for a
\* current neighbour) has been answered broadcast_ok.
C14_Witness ==
    \E p \in Procs : \E m \in Range(state[p].neighbors) :
        /\ last.proc = p /\ last.env.type = "broadcast" /\ alive[p]
        /\ last.env.message \in state[p].messages
        /\ last.env.message \notin appended[p][m]
        /\ Len(out) = 1 /\ out[1].type = "broadcast_ok"

\* C16: the sync_ok written for a handled sync carries the list of that
\* sync: the same values in the same order with the same repetitions.
C16_SyncEcho ==
    [][\A p \in Procs : Completed(p, {"sync"}) =>
          /\ Len(out') = 1
          /\ out'[1].type = "sync_ok"
          /\ out'[1].messages = last'.env.messages]_vars

\* A sync of a value the node held already followed by a new one, which is
\* now queued for a neighbour, has been answered with both.
C16_Witness ==
    \E p \in Procs : \E m \in Range(state[p].neighbors) :
        /\ last.proc = p /\ last.env.type = "sync" /\ alive[p]
        /\ Len(last.env.messages) = 2
        /\ last.env.messages[1] \notin appended[p][m]
        /\ last.env.messages[2] \in Range(state[p].nodes[m])
        /\ Len(out) = 1 /\ out[1].messages = last.env.messages

\* C17: handling read changes no node state and writes one read_ok whose
\* messages are the members of ValueSet, each once; it is the empty list
\* when ValueSet is empty.
C17_ReadSnapshot ==
    [][\A p \in Procs : Handled(p, {"read"}) =>
          /\ state' = state
          /\ alive'[p]
          /\ Len(out') = 1
          /\ out'[1].type = "read_ok"
          /\ Range(out'[1].messages) = state[p].messages
          /\ Len(out'[1].messages) = Cardinality(state[p].messages)
          /\ state[p].messages = {} => out'[1].messages = <<>>]_vars

\* A read has been answered by a node that holds every value and has one of
\* them queued for a neighbour.
C17_Witness ==
    \E p \in Procs : \E m \in DOMAIN state[p].nodes :
        /\ last.proc = p /\ last.env.type = "read"
        /\ state[p].messages = Values
        /\ state[p].nodes[m] # <<>>
        /\ Len(out) = 1 /\ Len(out[1].messages) = MaxValue

\* C18: a line of a payload kind the handler has no arm for, or of a kind
\* Payload does not know, changes no node state, writes nothing and leaves
\* the node running.
C18_UnknownIgnored ==
    [][\A p \in Procs :
          (last'.proc = p /\ last'.op \in {"handle", "read_line"}
              /\ last'.env.type \notin Requests \cup {"sync_ok"})
          => /\ state' = state
             /\ out' = <<>>
             /\ alive'[p]]_vars

\* C19: once init has been handled, no step changes the node's id or its
\* membership list.
C19_IdentityOnce ==
    [][\A p \in Procs : state[p].my_id # "" =>
          /\ state'[p].my_id = state[p].my_id
          /\ state'[p].all_node_ids = state[p].all_node_ids]_vars

\* C20: handling broadcast, read, sync or sync_ok never aborts, whatever the
\* node's state and the envelope's source.
C20_NoPrecondition ==
    [][\A p \in Procs :
          Handled(p, {"broadcast", "read", "sync", "sync_ok"}) => alive'[p]]_vars

\* C15: the ids a step of a node issues (a reply of the handler, the syncs
\* of a tick) are at least the counter before the step, which is above every
\* id issued earlier, strictly increase in the order they are written, and
\* lie below the counter after the step: all ids a node issues are distinct
\* and increase in order of issue.
C15_FreshIds ==
    [][\A p \in Procs : last'.proc = p =>
          /\ \A i \in 1..Len(out') :
                /\ out'[i].msg_id >= MSG_ID[p]
                /\ out'[i].msg_id < MSG_ID'[p]
          /\ \A i, j \in 1..Len(out') :
                i < j => out'[i].msg_id < out'[j].msg_id
          /\ MSG_ID'[p] >= MSG_ID[p]]_vars

\* After three replies of the handler a tick has written two syncs, with
\* the fourth and the fifth id of the node.
C15_Witness ==
    /\ last.op = "tick"
    /\ Len(out) = 2
    /\ out[1].msg_id = 4 /\ out[2].msg_id = 5

\* Task of process p is inside a critical section / is at a lock() call.
InCritical(p, task) ==
    IF task = "handler" THEN pc[p].handler = "critical"
    ELSE pc[p].scheduler \in {"rate", "critical"}
AtLock(p, task) ==
    IF task = "handler" THEN pc[p].handler = "lock"
    ELSE pc[p].scheduler \in {"start", "lock"}
Tasks == {"handler", "scheduler"}

\* C21: the handler and the scheduler are never in their critical sections
\* at once; a task is in a critical section exactly while it holds the
\* mutex, so a task at a lock() call does not hold it; when a task is at a
\* lock() call the mutex is free or held by the other task inside a critical
\* section; a step that changes the node state or takes an id is taken by
\* the holder, who unlocks in it; and a task at a lock() call gets past it.
C21_SingleLock ==
    /\ [](\A p \in Procs : alive[p] =>
            /\ ~(InCritical(p, "handler") /\ InCritical(p, "scheduler"))
            /\ \A task \in Tasks :
                  /\ InCritical(p, task) <=> lock[p] = task
                  /\ AtLock(p, task) => lock[p] # task
                  /\ AtLock(p, task) =>
                        \/ lock[p] = "free"
                        \/ \E other \in Tasks \ {task} :
                              lock[p] = other /\ InCritical(p, other))
    /\ [][\A p \in Procs :
             (state'[p] # state[p] \/ MSG_ID'[p] # MSG_ID[p]) =>
                 /\ lock[p] # "free"
                 /\ InCritical(p, lock[p])
                 /\ lock'[p] = "free"]_vars
    /\ \A task \in Tasks :
          (alive[1] /\ AtLock(1, task)) ~> (~alive[1] \/ InCritical(1, task))

\* The handler is blocked in lock() with a broadcast in hand while the
\* scheduler is inside the block of its loop with a value queued.
C21_Witness ==
    /\ alive[1]
    /\ pc[1].handler = "lock" /\ pc[1].envelope.type = "broadcast"
    /\ pc[1].scheduler = "critical" /\ lock[1] = "scheduler"
    /\ \E m \in DOMAIN state[1].nodes : state[1].nodes[m] # <<>>

\* C22: every value a node holds is queued for each of its neighbours or was
\* acknowledged by that neighbour's sync_ok.
C22_AllOffered ==
    \A p \in Procs : \A m \in Range(state[p].neighbors) :
        \A v \in state[p].messages :
            v \in Pending(state[p], m) \/ v \in acked[p][m]

\* No node has a value queued for any peer.
AllQuiet ==
    \A p \in Procs : \A m \in DOMAIN state[p].nodes : state[p].nodes[m] = <<>>

\* C23: once the clients have broadcast their last value, with ticks and
\* deliveries fair, the queues of all nodes are eventually empty for good,
\* and a tick of a node whose queues are empty writes no sync.
C23_Quiescence ==
    /\ <>[]AllQuiet
    /\ [][\A p \in Procs :
             (last'.proc = p /\ last'.op = "tick"
                 /\ \A m \in DOMAIN state[p].nodes : state[p].nodes[m] = <<>>)
             => out' = <<>>]_vars

\* Every value went round: each node had all values acknowledged by its
\* neighbour, which is the node it learned some of them from, all queues are
\* empty and the tick just taken wrote nothing.
C23_Witness ==
    /\ AllQuiet
    /\ last.op = "tick" /\ out = <<>>
    /\ \A p \in Procs : \E m \in Range(state[p].neighbors) :
          acked[p][m] = Values

(***************************** grow_only_counter.rs ************************)
\* The counter processes 1 .. CounterNodes are named n0, n1, ...; the key-value
\* service they commit to is the Maelstrom node "seq-kv".
CounterNames == [n \in 1..CounterNodes |-> AllNames[n]]
SeqKv == "seq-kv"
Deltas == 1..MaxDelta

\* Envelope::new with a Body of grow_only_counter's Payload: from and to are
\* those of Cas, value that of ReadOk and UpdateCounter.
CounterEnvelope(src, dest, msg_id, in_reply_to, type, from, to, value) ==
    [source |-> src, destination |-> dest, msg_id |-> msg_id,
     in_reply_to |-> in_reply_to, type |-> type, from |-> from, to |-> to,
     value |-> value]

\* The Init arm: my_id and all_node_ids are overwritten.
counter_init(st, node_id, node_ids) ==
    [st EXCEPT !.my_id = node_id, !.all_node_ids = node_ids]

\* The Add arm: the delta is buffered.
counter_add(st, delta) ==
    [st EXCEPT !.uncommitted_total = @ + delta]

\* The CasOk arm: the delta recorded under the id of the request leaves the
\* buffer and is added to the last known committed total.
counter_cas_ok(st, in_reply_to) ==
    LET committed_delta == st.cas_deltas[in_reply_to]
    IN  [st EXCEPT !.uncommitted_total =
                       IF committed_delta <= @ THEN @ - committed_delta ELSE 0,
                   !.last_known_committed_total = @ + committed_delta]

\* The CasOk arm's loop: update_counter with the new total to every node of
\* all_node_ids but my_id, each under the next id.
update_counters(st, id) ==
    LET others == SelectSeq(st.all_node_ids, LAMBDA node_id : node_id # st.my_id)
    IN  {CounterEnvelope(st.my_id, others[i], fetch_add(id, i - 1), None,
                         "update_counter", None, None,
                         st.last_known_committed_total) : i \in 1..Len(others)}

\* The ReadOk and UpdateCounter arms: a value not below the last known
\* committed total replaces it.
counter_adopt(st, value) ==
    IF value >= st.last_known_committed_total
    THEN [st EXCEPT !.last_known_committed_total = value]
    ELSE st

\* Read { key: Some("counter") } to seq-kv (Error arm, and the end of a tick).
kv_read(st, id) ==
    CounterEnvelope(st.my_id, SeqKv, id, None, "read", None, None, None)

\* The tick's Cas { from: last known, to: last known + buffered,
\* create_if_not_exists: Some(true) }.
kv_cas(st, id) ==
    CounterEnvelope(st.my_id, SeqKv, id, None, "cas",
                    st.last_known_committed_total,
                    st.last_known_committed_total + st.uncommitted_total, None)

\* One round of commit_buffered_delta_every_so_often: <<state, envelopes>>.
commit_buffered_delta(st, id) ==
    IF st.uncommitted_total > 0
    THEN <<[st EXCEPT !.cas_deltas =
                (id :> st.uncommitted_total) @@ st.cas_deltas],
           {kv_cas(st, id), kv_read(st, fetch_add(id, 1))}>>
    ELSE <<st, {kv_read(st, id)}>>

\* The ids a counter process may still issue, and the room left in flight.
CanIssue(n, k) == counter_id[n] + k - 1 <= MaxCounterId
CanSend(taken, sent) == Cardinality(wire) - taken + sent <= MaxWire
Inbox(n, type) ==
    {e \in wire : e.destination = CounterNames[n] /\ e.type = type}

\* init from Maelstrom, once, before anything else reaches the process.
CounterInit(n) ==
    /\ counter[n].my_id = ""
    /\ CanIssue(n, 1)
    /\ counter' = [counter EXCEPT
                      ![n] = counter_init(@, CounterNames[n], CounterNames)]
    /\ counter_id' = [counter_id EXCEPT ![n] = fetch_add(@, 1)]
    /\ UNCHANGED <<kv, wire, added, broadcast_vars>>

\* add from a client: buffered and answered add_ok.
CounterAdd(n) ==
    \E delta \in Deltas :
        /\ counter[n].my_id # ""
        /\ added + delta <= MaxAdded
        /\ CanIssue(n, 1)
        /\ counter' = [counter EXCEPT ![n] = counter_add(@, delta)]
        /\ counter_id' = [counter_id EXCEPT ![n] = fetch_add(@, 1)]
        /\ added' = added + delta
        /\ UNCHANGED <<kv, wire, broadcast_vars>>

\* read from a client: answered read_ok with last_known_committed_total.
CounterRead(n) ==
    /\ counter[n].my_id # ""
    /\ CanIssue(n, 1)
    /\ counter_id' = [counter_id EXCEPT ![n] = fetch_add(@, 1)]
    /\ UNCHANGED <<counter, kv, wire, added, broadcast_vars>>

CounterCasOk(n) ==
    \E e \in Inbox(n, "cas_ok") :
        LET st == counter_cas_ok(counter[n], e.in_reply_to)
            sent == update_counters(st, counter_id[n])
        IN  /\ CanIssue(n, Cardinality(sent))
            /\ CanSend(1, Cardinality(sent))
            /\ counter' = [counter EXCEPT ![n] = st]
            /\ counter_id' = [counter_id EXCEPT
                                 ![n] = fetch_add(@, Cardinality(sent))]
            /\ wire' = (wire \ {e}) \cup sent
            /\ UNCHANGED <<kv, added, broadcast_vars>>

CounterError(n) ==
    \E e \in Inbox(n, "error") :
        /\ CanIssue(n, 1)
        /\ counter_id' = [counter_id EXCEPT ![n] = fetch_add(@, 1)]
        /\ wire' = (wire \ {e}) \cup {kv_read(counter[n], counter_id[n])}
        /\ UNCHANGED <<counter, kv, added, broadcast_vars>>

CounterReadOk(n) ==
    \E e \in Inbox(n, "read_ok") :
        /\ counter' = [counter EXCEPT ![n] = counter_adopt(@, e.value)]
        /\ wire' = wire \ {e}
        /\ UNCHANGED <<counter_id, kv, added, broadcast_vars>>

CounterUpdateCounter(n) ==
    \E e \in Inbox(n, "update_counter") :
        /\ counter' = [counter EXCEPT ![n] = counter_adopt(@, e.value)]
        /\ wire' = wire \ {e}
        /\ UNCHANGED <<counter_id, kv, added, broadcast_vars>>

CounterTick(n) ==
    LET r == commit_buffered_delta(counter[n], counter_id[n])
    IN  /\ counter[n].my_id # ""
        /\ CanIssue(n, Cardinality(r[2]))
        /\ CanSend(0, Cardinality(r[2]))
        /\ counter' = [counter EXCEPT ![n] = r[1]]
        /\ counter_id' = [counter_id EXCEPT
                             ![n] = fetch_add(@, Cardinality(r[2]))]
        /\ wire' = wire \cup r[2]
        /\ UNCHANGED <<kv, added, broadcast_vars>>

\* seq-kv serves a read of "counter": the value, or an error while the key
\* does not exist.
KvRead ==
    \E e \in {m \in wire : m.destination = SeqKv /\ m.type = "read"} :
        /\ wire' = (wire \ {e}) \cup
               {CounterEnvelope(SeqKv, e.source, None, e.msg_id,
                                IF kv = None THEN "error" ELSE "read_ok",
                                None, None, kv)}
        /\ UNCHANGED <<counter, counter_id, kv, added, broadcast_vars>>

\* seq-kv serves a cas of "counter": it creates the key (create_if_not_exists)
\* or swaps from for to, and answers error when the value is not from.
KvCas ==
    \E e \in {m \in wire : m.destination = SeqKv /\ m.type = "cas"} :
        LET ok == kv = None \/ kv = e.from
        IN  /\ kv' = IF ok THEN e.to ELSE kv
            /\ wire' = (wire \ {e}) \cup
                   {CounterEnvelope(SeqKv, e.source, None, e.msg_id,
                                    IF ok THEN "cas_ok" ELSE "error",
                                    None, None, None)}
            /\ UNCHANGED <<counter, counter_id, added, broadcast_vars>>

NextCounter ==
    \/ \E n \in 1..CounterNodes :
          \/ CounterInit(n)
          \/ CounterAdd(n)
          \/ CounterRead(n)
          \/ CounterCasOk(n)
          \/ CounterError(n)
          \/ CounterReadOk(n)
          \/ CounterUpdateCounter(n)
          \/ CounterTick(n)
    \/ KvRead
    \/ KvCas

InitCounter == Boot({1}, 1, WideIdBits)

CounterSpec == InitCounter /\ [][NextCounter]_vars

\* C24: a counter process's last_known_committed_total, which is what it
\* answers a client's read with, never exceeds the sum of the deltas the
\* processes accepted with add_ok, whatever the order in which the replies of
\* seq-kv and the update_counter messages are handled.
C24_NeverOvercounts ==
    \A n \in 1..CounterNodes : counter[n].last_known_committed_total <= added

====
